---- MODULE Spec2Model ----
(***************************************************************************)
(* sharkspace-portal: the encrypted-package viewer.                        *)
(*                                                                         *)
(*   page    src/src/components/ProjectViewer.tsx  (loadProject pipeline)  *)
(*   layer   src/public/sw.js                      (service worker)        *)
(*   packer  src/encrypt-directory.cjs             (envelope producer)     *)
(*                                                                         *)
(* Strings are modelled by what the code does with them:                   *)
(*   - a URL path or an archive entry name is the sequence of its          *)
(*     '/'-separated segments (what String.split('/') returns), so         *)
(*     "/a/b/" is <<"", "a", "b", "">> and "" is <<"">>;                   *)
(*   - the envelope wire string is a sequence of one-character strings.    *)
(***************************************************************************)
EXTENDS Integers, Sequences, FiniteSets, TLC

(***************************************************************************)
(* Bounds of the model.                                                    *)
(***************************************************************************)
MaxDepth == 2      \* segments of a request path after its leading part
MaxSegs == 3       \* segments of a path given to the path normalization
MaxOther == 1      \* messages with another tag that reach the layer

(***************************************************************************)
(* JavaScript values.                                                      *)
(***************************************************************************)
NULL == [isNull |-> TRUE]
IsNull(v) == "isNull" \in DOMAIN v
JsMap(f) == [map |-> f]          \* a Map object
Str(x) == [str |-> x]            \* a string, where null is the alternative
Undefined == [def |-> FALSE]
Defined(v) == [def |-> TRUE, v |-> v]
Throw(kind) == [ok |-> FALSE, err |-> kind]
Return(v) == [ok |-> TRUE, val |-> v]

Min(a, b) == IF a < b THEN a ELSE b

(***************************************************************************)
(* Hex codec.                                                              *)
(***************************************************************************)
HexChars == <<"0","1","2","3","4","5","6","7","8","9","a","b","c","d","e","f">>
HexUpper == <<"0","1","2","3","4","5","6","7","8","9","A","B","C","D","E","F">>
NaN == -1

\* value of one hex digit, case-insensitive as parseInt reads it; NaN otherwise
DigitVal(c) ==
  IF \E i \in 1..16 : HexChars[i] = c
    THEN (CHOOSE i \in 1..16 : HexChars[i] = c) - 1
    ELSE IF \E i \in 1..16 : HexUpper[i] = c
      THEN (CHOOSE i \in 1..16 : HexUpper[i] = c) - 1
      ELSE NaN

\* parseInt(byte, 16) on a chunk of one or two characters: the longest
\* prefix of hex digits is read, NaN when there is none
ParseInt16(chunk) ==
  LET d1 == DigitVal(chunk[1]) IN
  IF d1 = NaN THEN NaN
  ELSE IF Len(chunk) = 1 THEN d1
  ELSE LET d2 == DigitVal(chunk[2]) IN
       IF d2 = NaN THEN d1 ELSE d1 * 16 + d2

\* view[i] = byte: storing into a Uint8Array (NaN is stored as 0)
ToUint8(v) == IF v = NaN THEN 0 ELSE v % 256

\* hexToUint8Array(hex); hex is Undefined or Defined(chars). hex.match on
\* undefined and null.map on the empty string throw a TypeError.
hexToUint8Array(hex) ==
  IF ~hex.def THEN Throw("TypeError")
  ELSE IF hex.v = <<>> THEN Throw("TypeError")
  ELSE LET s == hex.v
           n == (Len(s) + 1) \div 2
       IN Return([i \in 1..n |->
                    ToUint8(ParseInt16(SubSeq(s, 2 * i - 1, Min(2 * i, Len(s)))))])

\* Buffer.toString('hex'): two lowercase digits per byte
ToHex(bytes) ==
  [i \in 1..(2 * Len(bytes)) |->
     IF i % 2 = 1 THEN HexChars[(bytes[(i + 1) \div 2] \div 16) + 1]
                  ELSE HexChars[(bytes[i \div 2] % 16) + 1]]

\* String.split(sep) on a sequence of characters: the pieces between the
\* occurrences of sep, empty pieces included
Split(s, sep) ==
  LET at == {i \in 1..Len(s) : s[i] = sep}
      pos(k) == IF k = 0 THEN 0
                ELSE IF k = Cardinality(at) + 1 THEN Len(s) + 1
                ELSE CHOOSE i \in at : Cardinality({j \in at : j < i}) = k - 1
  IN [k \in 1..(Cardinality(at) + 1) |-> SubSeq(s, pos(k - 1) + 1, pos(k) - 1)]

\* Array.join(sep)
RECURSIVE Join(_, _)
Join(parts, sep) ==
  IF parts = <<>> THEN <<>>
  ELSE IF Len(parts) = 1 THEN parts[1]
  ELSE parts[1] \o <<sep>> \o Join(Tail(parts), sep)

\* array destructuring: the i-th element or undefined
Nth(arr, i) == IF i <= Len(arr) THEN Defined(arr[i]) ELSE Undefined

(***************************************************************************)
(* Archives. An entry is what js-untar yields: a name and a buffer. A      *)
(* buffer of a text file is a sequence of tokens: an opening head tag, an  *)
(* attribute (name, quote, value as a path), a base tag, or other text.    *)
(***************************************************************************)
HeadTag == [t |-> "head"]
Attr(name, q, val) == [t |-> "attr", name |-> name, q |-> q, val |-> val]
Text(x) == [t |-> "text", s |-> x]
BaseTag(href) == [t |-> "base", href |-> href]

File(name, buffer) == [name |-> name, buffer |-> buffer]

\* an entry for a directory: the archiver writes its name with a trailing '/'
IsDirectory(file) == file.name[Len(file.name)] = ""

IndexHtml ==
  <<Text("<html>"), HeadTag, Text("<a"), Attr("href", "dq", <<"", "about.html">>),
    Text("<img"), Attr("src", "sq", <<"", "", "cdn", "logo.png">>), HeadTag>>
AboutHtml == <<Text("<p>"), Attr("href", "sq", <<"", "index.html">>),
               Attr("data", "dq", <<"", "x">>), Attr("src", "dq", <<"logo.png">>)>>
StyleCss == <<Text("body{}"), Attr("src", "dq", <<"", "font.woff">>), HeadTag>>

\* 1: a two-file directory as the packer archives it (tar.c of '.')
\* 2: a directory with a subdirectory and no index.html
\* 3: a plain two-file archive
\* 4: an archive in which two entries have the same path after normalization
Archives ==
  << <<File(<<".", "">>, <<>>), File(<<".", "index.html">>, IndexHtml),
       File(<<".", "style.css">>, StyleCss)>>,
     <<File(<<".", "">>, <<>>), File(<<".", "about.html">>, AboutHtml),
       File(<<".", "css", "">>, <<>>), File(<<".", "css", "style.css">>, StyleCss)>>,
     <<File(<<"index.html">>, IndexHtml), File(<<"style.css">>, StyleCss)>>,
     <<File(<<".", "index.html">>, AboutHtml), File(<<"style.css">>, StyleCss),
       File(<<"index.html">>, IndexHtml)>> >>
NumArchives == Len(Archives)

\* The archive buffers: <<n>> stands for the tar bytes of archive n, and
\* <<0>> for a byte stream that is no tape archive.
Plaintexts == {<<n>> : n \in 0..NumArchives}

\* untar(decryptedTarBuffer)
untar(buffer) ==
  IF buffer[1] \in 1..NumArchives THEN Return(Archives[buffer[1]])
  ELSE Throw("CorruptArchive")

(***************************************************************************)
(* File names. The extension of a name is that of its last segment.        *)
(***************************************************************************)
SegExt(seg) ==
  CASE seg \in {"index.html", "about.html"} -> ".html"
    [] seg \in {"style.css"} -> ".css"
    [] seg \in {"app.js"} -> ".js"
    [] seg \in {"logo.png"} -> ".png"
    [] OTHER -> ""
endsWith(name, suffix) == SegExt(name[Len(name)]) = suffix

getMimeType(filename) ==
  IF endsWith(filename, ".html") THEN "text/html"
  ELSE IF endsWith(filename, ".css") THEN "text/css"
  ELSE IF endsWith(filename, ".js") THEN "application/javascript"
  ELSE IF endsWith(filename, ".png") THEN "image/png"
  ELSE IF endsWith(filename, ".jpg") \/ endsWith(filename, ".jpeg") THEN "image/jpeg"
  ELSE IF endsWith(filename, ".svg") THEN "image/svg+xml"
  ELSE "application/octet-stream"

\* string concatenation of two paths: the last segment of a and the first
\* of b become one segment (one of the two is empty wherever it is used)
StrCat(a, b) ==
  SubSeq(a, 1, Len(a) - 1)
    \o <<IF a[Len(a)] = "" THEN b[1] ELSE a[Len(a)]>>
    \o Tail(b)

\* s.replace(/\/$/, '')
StripTrailingSlash(s) ==
  IF Len(s) >= 2 /\ s[Len(s)] = "" THEN SubSeq(s, 1, Len(s) - 1) ELSE s

\* import.meta.env.BASE_URL: "/sharkspace-portal/"
BASE_URL == <<"", "sharkspace-portal", "">>
\* "/sharkspace-portal/portal-scope/"
SCOPE_PREFIX == StrCat(StripTrailingSlash(BASE_URL), <<"", "portal-scope", "">>)

\* file.name.replace(/^\.\//, '')
normalizedPath(name) ==
  IF Len(name) >= 2 /\ name[1] = "." THEN Tail(name) ELSE name

(***************************************************************************)
(* The link rewrite of the unpacking stage.                                *)
(***************************************************************************)
\* LinkFix with a plausible fault: the pattern names href only
LinkFixHrefOnly(tok) ==
  IF tok.t = "attr" /\ tok.name = "href"
     /\ Len(tok.val) >= 2 /\ tok.val[1] = "" /\ tok.val[2] # ""
    THEN Attr(tok.name, "dq", Tail(tok.val))
    ELSE tok

\* linkFixerRegex: (href|src)=["']\/([^/][^"']*)["']  ->  $1="$2"
LinkFix(tok) ==
  IF tok.t = "attr" /\ tok.name \in {"href", "src"}
     /\ Len(tok.val) >= 2 /\ tok.val[1] = "" /\ tok.val[2] # ""
    THEN Attr(tok.name, "dq", Tail(tok.val))
    ELSE tok

\* contentAsString.replace(/<head[^>]*>/i, `$&${baseTag}`): the first match
InjectBase(content) ==
  IF \E i \in 1..Len(content) : content[i].t = "head"
    THEN LET i == CHOOSE i \in 1..Len(content) :
                    content[i].t = "head" /\ \A j \in 1..(i - 1) : content[j].t # "head"
         IN SubSeq(content, 1, i) \o <<BaseTag(SCOPE_PREFIX)>>
              \o SubSeq(content, i + 1, Len(content))
    ELSE content

\* the body of files.forEach up to fileMap.set: the buffer of one entry
Rewritten(file) ==
  IF endsWith(file.name, ".html") \/ endsWith(file.name, ".css")
    THEN LET fixed == [i \in 1..Len(file.buffer) |-> LinkFix(file.buffer[i])]
         IN IF endsWith(file.name, ".html") THEN InjectBase(fixed) ELSE fixed
    ELSE file.buffer

Blob(bytes, type) == [bytes |-> bytes, type |-> type]

\* Map.set with a plausible fault: a key that is present is left as it is
MapSetKeepFirst(m, k, v) == [x \in (DOMAIN m) \cup {k} |-> IF x \in DOMAIN m THEN m[x] ELSE v]

\* Map.set
MapSet(m, k, v) == [x \in (DOMAIN m) \cup {k} |-> IF x = k THEN v ELSE m[x]]
EmptyMap == [x \in {} |-> NULL]

\* files.forEach(file => ... fileMap.set(normalizedPath, new Blob(...)))
RECURSIVE BuildFileMap(_, _)
BuildFileMap(files, m) ==
  IF files = <<>> THEN m
  ELSE LET file == Head(files) IN
       BuildFileMap(Tail(files),
                    MapSet(m, normalizedPath(file.name),
                           Blob(Rewritten(file), getMimeType(file.name))))

(***************************************************************************)
(* Key derivation and cipher engine.                                       *)
(* PBKDF2 and AES-GCM are the platform's (WebCrypto in the page, node      *)
(* crypto in the packer). They are modelled as ideal primitives: a derived *)
(* key is the term of its inputs, and the encryptions the packer can make  *)
(* form a table in which every (key, iv, plaintext) has its own ciphertext *)
(* and tag; decryption succeeds exactly on an entry of that table.         *)
(***************************************************************************)
KEY_DERIVATION_ITERATIONS == 120000
SALT_BYTES == 16
IV_BYTES == 12
TAG_BYTES == 16
KEY_BITS == 256

Passwords == <<"correct-horse", "wrong">>
\* crypto.randomBytes(SALT_BYTES), crypto.randomBytes(IV_BYTES): two outcomes each
SaltList == <<[i \in 1..SALT_BYTES |-> 7], [i \in 1..SALT_BYTES |-> 171]>>
IvList == <<[i \in 1..IV_BYTES |-> 9], [i \in 1..IV_BYTES |-> IF i % 2 = 1 THEN 15 ELSE 240]>>


Pbkdf2(password, salt, iterations, hash, bits) ==
  [pw |-> password, salt |-> salt, iters |-> iterations, hash |-> hash, bits |-> bits]

EncIndex(p, s, v, n) ==
  (((p - 1) * Len(SaltList) + (s - 1)) * Len(IvList) + (v - 1)) * (NumArchives + 1) + n + 1

Encryptions ==
  {[key |-> Pbkdf2(Passwords[p], SaltList[s], KEY_DERIVATION_ITERATIONS, "SHA-256", KEY_BITS),
    iv |-> IvList[v],
    plain |-> <<n>>,
    ct |-> <<EncIndex(p, s, v, n)>>,
    tag |-> [i \in 1..TAG_BYTES |-> EncIndex(p, s, v, n)]] :
      p \in 1..Len(Passwords), s \in 1..Len(SaltList), v \in 1..Len(IvList),
      n \in 0..NumArchives}

\* cipher.update + cipher.final + cipher.getAuthTag
GcmEncrypt(key, iv, plain) ==
  CHOOSE e \in Encryptions : e.key = key /\ e.iv = iv /\ e.plain = plain

\* crypto.subtle.decrypt({name: "AES-GCM", iv}, key, ciphertext || tag)
GcmDecrypt(key, iv, data) ==
  IF \E e \in Encryptions : e.key = key /\ e.iv = iv /\ e.ct \o e.tag = data
    THEN Return((CHOOSE e \in Encryptions :
                   e.key = key /\ e.iv = iv /\ e.ct \o e.tag = data).plain)
    ELSE Throw("OperationError")

(***************************************************************************)
(* The packer: encrypt-directory.cjs.                                      *)
(***************************************************************************)
\* encryptDirectory with a plausible fault: the tag is written last
encryptDirectoryTagLast(password, salt, iv, archiveBuffer) ==
  LET key == Pbkdf2(password, salt, KEY_DERIVATION_ITERATIONS, "SHA-256", KEY_BITS)
      c == GcmEncrypt(key, iv, archiveBuffer)
  IN Join(<<ToHex(salt), ToHex(iv), ToHex(c.ct), ToHex(c.tag)>>, ".")

encryptDirectory(password, salt, iv, archiveBuffer) ==
  LET key == Pbkdf2(password, salt, KEY_DERIVATION_ITERATIONS, "SHA-256", KEY_BITS)
      c == GcmEncrypt(key, iv, archiveBuffer)
  IN Join(<<ToHex(salt), ToHex(iv), ToHex(c.tag), ToHex(c.ct)>>, ".")

(***************************************************************************)
(* What the page may be served as data.pkg: a package as written by the    *)
(* packer, or one damaged in storage or transit.                           *)
(***************************************************************************)
FlipHex(c) == IF c = "0" THEN "1" ELSE "0"
FlipLast(s) == SubSeq(s, 1, Len(s) - 1) \o <<FlipHex(s[Len(s)])>>

Damages == {"none", "ct", "tag", "short", "empty", "extra", "odd", "nonhex"}
Malformed == {"short", "empty", "extra", "odd", "nonhex"}
Tampered == {"ct", "tag"}

Damage(wire, kind) ==
  LET f == Split(wire, ".") IN
  CASE kind = "none" -> wire
    [] kind = "ct" -> Join(<<f[1], f[2], f[3], FlipLast(f[4])>>, ".")
    [] kind = "tag" -> Join(<<f[1], f[2], FlipLast(f[3]), f[4]>>, ".")
    [] kind = "short" -> Join(<<f[1], f[2], f[3]>>, ".")
    [] kind = "empty" -> Join(<<f[1], f[2], <<>>, f[4]>>, ".")
    [] kind = "extra" -> Join(<<f[1], f[2], f[3], f[4], <<"0", "0">>>>, ".")
    [] kind = "odd" -> Join(<<f[1], f[2], f[3], Append(f[4], "0")>>, ".")
    [] kind = "nonhex" -> Join(<<<<"g">> \o Tail(f[1]), f[2], f[3], f[4]>>, ".")

(***************************************************************************)
(* The page's decryption: decryptPackage.                                  *)
(***************************************************************************)
\* the four hexToUint8Array calls, in order; the first throw ends the function
DecodeFields(encryptedDataBlob) ==
  LET parts == Split(encryptedDataBlob, ".")
      salt == hexToUint8Array(Nth(parts, 1))
      iv == hexToUint8Array(Nth(parts, 2))
      authTag == hexToUint8Array(Nth(parts, 3))
      encryptedArchive == hexToUint8Array(Nth(parts, 4))
  IN IF ~salt.ok THEN salt
     ELSE IF ~iv.ok THEN iv
     ELSE IF ~authTag.ok THEN authTag
     ELSE IF ~encryptedArchive.ok THEN encryptedArchive
     ELSE Return([salt |-> salt.val, iv |-> iv.val, authTag |-> authTag.val,
                  encryptedArchive |-> encryptedArchive.val])

concatUint8Arrays(a, b) == a \o b

\* decryptPackage with a plausible fault: a cipher mode that does not
\* authenticate, so a wrong key or altered data yields bytes, not a failure
decryptPackageNoAuth(password, encryptedDataBlob) ==
  LET d == DecodeFields(encryptedDataBlob) IN
  IF ~d.ok THEN d
  ELSE LET key == Pbkdf2(password, d.val.salt, KEY_DERIVATION_ITERATIONS, "SHA-256", KEY_BITS)
           combinedBuffer == concatUint8Arrays(d.val.encryptedArchive, d.val.authTag)
           res == GcmDecrypt(key, d.val.iv, combinedBuffer)
       IN IF res.ok THEN res ELSE Return(<<0>>)

decryptPackage(password, encryptedDataBlob) ==
  LET d == DecodeFields(encryptedDataBlob) IN
  IF ~d.ok THEN d
  ELSE LET key == Pbkdf2(password, d.val.salt, KEY_DERIVATION_ITERATIONS, "SHA-256", KEY_BITS)
           combinedBuffer == concatUint8Arrays(d.val.encryptedArchive, d.val.authTag)
       IN GcmDecrypt(key, d.val.iv, combinedBuffer)

(***************************************************************************)
(* The interception layer: public/sw.js.                                   *)
(***************************************************************************)
VIRTUAL_SCOPE == "portal-scope"     \* the segment of '/portal-scope/'

\* path.indexOf(VIRTUAL_SCOPE): the first place where '/portal-scope/'
\* occurs, as the index of that segment; -1 when it occurs nowhere
ScopeIndex(path) ==
  IF \E i \in 2..(Len(path) - 1) : path[i] = VIRTUAL_SCOPE
    THEN CHOOSE i \in 2..(Len(path) - 1) :
           path[i] = VIRTUAL_SCOPE /\ \A j \in 2..(i - 1) : path[j] # VIRTUAL_SCOPE
    ELSE -1

\* FilePath with a plausible fault: the whole remaining path is the key, and
\* 'index.html' is appended to it when it is empty or ends in '/'
FilePathAppendIndex(path, scopeIndex) ==
  LET rest == SubSeq(path, scopeIndex + 1, Len(path)) IN
  IF rest[Len(rest)] = "" THEN StrCat(rest, <<"index.html">>) ELSE rest

\* path.substring(scopeIndex + VIRTUAL_SCOPE.length).split('/').pop() || 'index.html'
FilePath(path, scopeIndex) ==
  LET rest == SubSeq(path, scopeIndex + 1, Len(path))
      last == rest[Len(rest)]
  IN IF last = "" THEN <<"index.html">> ELSE <<last>>

NotIntercepted == [intercepted |-> FALSE]
Response(status, body, type) ==
  [intercepted |-> TRUE, status |-> status, body |-> body, type |-> type]
Uninitialized == Response(500, "Service Worker is active but has no file data.", "text/plain")
NotFound == Response(404, "File not found in virtual project.", "text/plain")

\* SwFetch with a plausible fault: no check that the table is there, so
\* a lookup in a missing table finds nothing
SwFetchNoInitCheck(fileMap, path) ==
  LET scopeIndex == ScopeIndex(path) IN
  IF scopeIndex # -1
    THEN LET filePath == FilePath(path, scopeIndex) IN
         IF ~IsNull(fileMap) /\ filePath \in DOMAIN fileMap.map
           THEN Response(200, fileMap.map[filePath].bytes, fileMap.map[filePath].type)
           ELSE NotFound
    ELSE NotIntercepted

\* the fetch listener: what event.respondWith is given, or NotIntercepted
\* when respondWith is not called
SwFetch(fileMap, path) ==
  LET scopeIndex == ScopeIndex(path) IN
  IF scopeIndex # -1
    THEN IF IsNull(fileMap) THEN Uninitialized
         ELSE LET filePath == FilePath(path, scopeIndex) IN
              IF filePath \in DOMAIN fileMap.map
                THEN Response(200, fileMap.map[filePath].bytes, fileMap.map[filePath].type)
                ELSE NotFound
    ELSE NotIntercepted

(***************************************************************************)
(* Requests the layer may see: paths under the page's scope, paths under   *)
(* the origin root, and paths of other parts of the origin.                *)
(***************************************************************************)
Segs == {"", "index.html", "style.css", "css"}
RECURSIVE SeqsUpTo(_, _)
SeqsUpTo(S, n) ==
  IF n = 0 THEN {<<>>}
  ELSE LET shorter == SeqsUpTo(S, n - 1) IN
       shorter \cup {Append(q, x) : q \in {r \in shorter : Len(r) = n - 1}, x \in S}
Leads == {<<"">>, <<"", "sharkspace-portal">>, <<"", "assets">>}
Paths ==
  {lead \o mid \o rest :
     lead \in Leads, mid \in {<<>>, <<VIRTUAL_SCOPE>>}, rest \in SeqsUpTo(Segs, MaxDepth)}
     \ {<<"">>}

\* the path begins with the page's scope prefix
startsWithPrefix(path) ==
  Len(path) >= Len(SCOPE_PREFIX)
  /\ SubSeq(path, 1, Len(SCOPE_PREFIX) - 1) = SubSeq(SCOPE_PREFIX, 1, Len(SCOPE_PREFIX) - 1)

(***************************************************************************)
(* State.                                                                  *)
(***************************************************************************)
VARIABLES
  pc,            \* where loadProject is suspended
  status,        \* useState<Status>
  errorMessage,  \* useState('')
  iframeSrc,     \* useState<string | null>
  hist,          \* every value status has had, in order
  caps,          \* the platform as the prerequisite checks found it
  creds,         \* the id and pwd query parameters as read
  pkg,           \* the package the server answered with
  tar,           \* decryptedTarBuffer
  pageMap,       \* the page's fileMap
  calls,         \* how often each outside call was made
  swFileMap,     \* the layer's fileMap
  swInbox,       \* messages posted to the layer, not yet handled
  port1Inbox,    \* messages posted to port2, not yet handled by port1
  port1Closed,   \* messageChannel.port1.close() was called
  acks,          \* acknowledgments: sent by the layer, handled by the page
  ev,            \* the recorded fetch event: path, the layer's table, response
  thrown,        \* the error a catch block of loadProject was entered with
  env,           \* what the page found: the Response, the controller
  layer,         \* the script of the layer that controls the page
  norm,          \* a path, and the path normalization applied to it
  rt,            \* an archive and a password, packed and then decrypted
  duo            \* two pages that hand their tables to the one layer

vars == <<pc, status, errorMessage, iframeSrc, hist, caps, creds, pkg, tar, pageMap,
          calls, swFileMap, swInbox, port1Inbox, port1Closed, acks, ev,
          thrown, env, layer, norm, rt, duo>>

pageVars == <<pc, status, errorMessage, iframeSrc, hist, caps, creds, pkg, tar, pageMap,
              calls, thrown, env>>

MsgRegister == "Could not register the service worker, which is required for project routing."
MsgMissing == "Project ID or password missing from URL."
MsgGeneric == "Decryption or unpacking failed. Please check credentials and package integrity."

Terminal == {"unsupported", "insecure", "error", "success"}

\* the scripts of the layer that a browser may hold for the scope: the one
\* the page registers, and the earlier one that listens on a BroadcastChannel
LayerScripts == {"public/sw.js", "unnamed/part_003"}

Init ==
  /\ pc = "start"
  /\ status = "checking"
  /\ errorMessage = ""
  /\ iframeSrc = NULL
  /\ hist = <<"checking">>
  /\ caps = NULL
  /\ creds = NULL
  /\ pkg = NULL
  /\ tar = NULL
  /\ pageMap = NULL
  /\ calls = [register |-> 0, fetch |-> 0, deriveKey |-> 0, decrypt |-> 0,
              untar |-> 0, postMessage |-> 0]
  /\ swFileMap = NULL
  /\ swInbox = <<>>
  /\ port1Inbox = <<>>
  /\ port1Closed = FALSE
  /\ acks = [sent |-> 0, handled |-> 0]
  /\ ev = NULL
  /\ thrown = NULL
  /\ env = [response |-> NULL, controller |-> NULL]
  /\ layer = "public/sw.js"
  /\ norm = NULL
  /\ rt = NULL
  /\ duo = NULL

\* setStatus(s)
SetStatus(s) == status' = s /\ hist' = Append(hist, s)

\* return setStatus(s)
ReturnWith(s) == SetStatus(s) /\ pc' = "returned"

\* Called with a plausible fault: a call that is made again when the first
\* attempt has not answered
CalledTwice(what) == calls' = [calls EXCEPT ![what] = @ + 2]

\* an outside call is made
Called(what) == calls' = [calls EXCEPT ![what] = @ + 1]

\* Catch with a plausible fault: the error's own text is shown
CatchEcho(err) ==
  /\ thrown' = Throw(err)
  /\ errorMessage' = err
  /\ ReturnWith("error")

\* Catch with a plausible fault: the failed load is tried again
CatchRetry(err) ==
  /\ thrown' = Throw(err)
  /\ errorMessage' = MsgGeneric
  /\ SetStatus("loading")
  /\ pc' = "fetch"

\* Catch with a plausible fault: the state is set and the message is not
CatchNoMessage(err) ==
  /\ thrown' = Throw(err)
  /\ UNCHANGED errorMessage
  /\ ReturnWith("error")

\* the catch block of loadProject, entered with the error err
Catch(err) ==
  /\ thrown' = Throw(err)
  /\ errorMessage' = MsgGeneric
  /\ ReturnWith("error")

(***************************************************************************)
(* The page: loadProject.                                                  *)
(***************************************************************************)
\* Prerequisites with a plausible fault: the interception capability is
\* not checked
PrerequisitesNoSwCheck(c) ==
  IF ~c.subtle THEN "unsupported"
  ELSE IF ~c.isSecureContext THEN "insecure"
  ELSE "pass"

\* 1. Prerequisite checks: the status to return with, or "pass"
Prerequisites(c) ==
  IF ~c.subtle THEN "unsupported"
  ELSE IF ~c.serviceWorker THEN "unsupported"
  ELSE IF ~c.isSecureContext THEN "insecure"
  ELSE "pass"

Platforms == [subtle : BOOLEAN, serviceWorker : BOOLEAN, isSecureContext : BOOLEAN]

\* loadProject up to its first await: the checks, and the call of register
Start ==
  /\ pc = "start"
  /\ \E c \in Platforms :
       /\ caps' = c
       /\ IF Prerequisites(c) # "pass"
            THEN /\ ReturnWith(Prerequisites(c))
                 /\ UNCHANGED calls
            ELSE /\ SetStatus("registering_sw")
                 /\ Called("register")
                 /\ pc' = "register"
  /\ UNCHANGED <<errorMessage, iframeSrc, creds, pkg, tar, pageMap, thrown, env,
                 swFileMap, swInbox, port1Inbox, port1Closed, acks, ev, layer, norm, rt, duo>>

\* register() settles: it rejects, or the page goes on to await ready
RegisterSettled ==
  /\ pc = "register"
  /\ \E ok \in BOOLEAN :
       IF ok
         THEN /\ pc' = "ready"
              /\ UNCHANGED <<status, hist, errorMessage, thrown>>
         ELSE /\ thrown' = Throw("RegistrationError")
              /\ errorMessage' = MsgRegister
              /\ ReturnWith("error")
  /\ UNCHANGED <<iframeSrc, caps, creds, pkg, tar, pageMap, calls, env,
                 swFileMap, swInbox, port1Inbox, port1Closed, acks, ev, layer, norm, rt, duo>>

\* CredentialsMissing with a plausible fault: only the id is looked at
CredentialsMissingIdOnly(projectId, password) == projectId = ""

\* !projectId || !password
CredentialsMissing(projectId, password) == projectId = "" \/ password = ""

Ids == {"", "demo"}
Pwds == {"", Passwords[1], Passwords[2]}

\* serviceWorker.ready and the one-second timer are over: the credentials
\* are read (an absent parameter and an empty one are both falsy) and the
\* package is requested
ReadCredentials ==
  /\ pc = "ready"
  /\ \E id \in Ids, pwd \in Pwds :
       /\ creds' = [projectId |-> id, password |-> pwd]
       /\ IF CredentialsMissing(id, pwd)
            THEN /\ errorMessage' = MsgMissing
                 /\ ReturnWith("error")
                 /\ UNCHANGED calls
            ELSE /\ SetStatus("loading")
                 /\ Called("fetch")
                 /\ pc' = "fetch"
                 /\ UNCHANGED errorMessage
  /\ UNCHANGED <<iframeSrc, caps, pkg, tar, pageMap, thrown, env,
                 swFileMap, swInbox, port1Inbox, port1Closed, acks, ev, layer, norm, rt, duo>>

\* what the server holds for a project: a package the packer wrote for some
\* password and directory, possibly damaged
Packages ==
  [pw : {Passwords[1]}, salt : 1..Len(SaltList), iv : 1..Len(IvList),
   arch : 0..NumArchives, damage : Damages]
Wire(p) ==
  Damage(encryptDirectory(p.pw, SaltList[p.salt], IvList[p.iv], <<p.arch>>), p.damage)

HttpStatuses == {200, 404, 500}

\* Response.ok: the status is in the range 200-299
ResponseOk(st) == st >= 200 /\ st <= 299

\* the error thrown for a response that is not ok: the same for every status
NotOkError(st) == "Project not found."

\* fetch settles and the body is read: a network failure, a status that is
\* not ok, or the text of the package
FetchSettled ==
  /\ pc = "fetch"
  /\ \/ /\ Catch("NetworkError")
        /\ UNCHANGED <<pkg, env>>
     \/ \E st \in HttpStatuses :
          /\ env' = [env EXCEPT !.response = [status |-> st, ok |-> ResponseOk(st)]]
          /\ IF ResponseOk(st)
               THEN \E p \in Packages :
                      /\ pkg' = p
                      /\ SetStatus("decrypting")
                      /\ pc' = "decrypt"
                      /\ UNCHANGED <<errorMessage, thrown>>
               ELSE /\ Catch(NotOkError(st))
                    /\ UNCHANGED pkg
  /\ UNCHANGED <<iframeSrc, caps, creds, tar, pageMap, calls,
                 swFileMap, swInbox, port1Inbox, port1Closed, acks, ev, layer, norm, rt, duo>>

\* what decryptPackage does with each package under each password: whether
\* the four fields were decoded (so that deriveKey and decrypt are called),
\* and what it returns or throws
Decryptions ==
  {[pkg |-> p, password |-> password,
    decoded |-> DecodeFields(Wire(p)).ok, res |-> decryptPackage(password, Wire(p))] :
      p \in Packages, password \in Pwds \ {""}}
Decrypted(p, password) == CHOOSE d \in Decryptions : d.pkg = p /\ d.password = password

\* decryptPackage settles; on success untar is called
DecryptSettled ==
  /\ pc = "decrypt"
  /\ LET res == Decrypted(pkg, creds.password).res
         n == IF Decrypted(pkg, creds.password).decoded THEN 1 ELSE 0
         u == IF res.ok THEN 1 ELSE 0
     IN /\ calls' = [calls EXCEPT !.deriveKey = @ + n, !.decrypt = @ + n, !.untar = @ + u]
        /\ IF res.ok
             THEN /\ tar' = res.val
                  /\ SetStatus("unpacking")
                  /\ pc' = "untar"
                  /\ UNCHANGED <<errorMessage, thrown>>
             ELSE /\ Catch(res.err)
                  /\ UNCHANGED tar
  /\ UNCHANGED <<iframeSrc, caps, creds, pkg, pageMap, env,
                 swFileMap, swInbox, port1Inbox, port1Closed, acks, ev, layer, norm, rt, duo>>

SetFileMapMsg(fileMap) == [type |-> "SET_FILE_MAP", fileMap |-> fileMap, port |-> TRUE]
Ack == [type |-> "FILE_MAP_SET"]

\* SendFileMap with a plausible fault: the viewport is pointed at the scope
\* as soon as the table is posted
SendFileMapNoWait(fileMap, controller) ==
  IF controller
    THEN /\ swInbox' = Append(swInbox, SetFileMapMsg(fileMap))
         /\ Called("postMessage")
         /\ iframeSrc' = Str(StrCat(SCOPE_PREFIX, <<"index.html">>))
         /\ ReturnWith("success")
         /\ UNCHANGED <<errorMessage, thrown>>
    ELSE /\ Catch("Service worker is not active or not controlling the page.")
         /\ UNCHANGED <<swInbox, iframeSrc, calls>>

\* SendFileMap with a plausible fault: a statement after the post throws
SendFileMapThenThrow(fileMap, controller) ==
  IF controller
    THEN /\ swInbox' = Append(swInbox, SetFileMapMsg(fileMap))
         /\ Called("postMessage")
         /\ Catch("TypeError")
         /\ UNCHANGED iframeSrc
    ELSE /\ Catch("Service worker is not active or not controlling the page.")
         /\ UNCHANGED <<swInbox, iframeSrc, calls>>

\* SendFileMap with a plausible fault: without a controller the table is
\* posted to the registration's active worker instead
SendFileMapToActive(fileMap, controller) ==
  /\ swInbox' = Append(swInbox, SetFileMapMsg(fileMap))
  /\ Called("postMessage")
  /\ pc' = "returned"
  /\ UNCHANGED <<status, hist, errorMessage, iframeSrc, thrown>>

\* 9. the File Table is posted to the controlling layer, or the page throws
SendFileMap(fileMap, controller) ==
  IF controller
    THEN /\ swInbox' = Append(swInbox, SetFileMapMsg(fileMap))
         /\ Called("postMessage")
         /\ pc' = "returned"
         /\ UNCHANGED <<status, hist, errorMessage, iframeSrc, thrown>>
    ELSE /\ Catch("Service worker is not active or not controlling the page.")
         /\ UNCHANGED <<swInbox, iframeSrc, calls>>

\* untar settles: the table is built, the channel made, the table posted
UntarSettled ==
  /\ pc = "untar"
  /\ LET files == untar(tar) IN
     IF files.ok
       THEN /\ pageMap' = JsMap(BuildFileMap(files.val, EmptyMap))
            /\ \E controller \in BOOLEAN :
                 /\ env' = [env EXCEPT !.controller = [present |-> controller]]
                 /\ SendFileMap(pageMap', controller)
       ELSE /\ Catch(files.err)
            /\ UNCHANGED <<pageMap, swInbox, iframeSrc, calls, env>>
  /\ UNCHANGED <<caps, creds, pkg, tar, swFileMap, port1Inbox, port1Closed, acks, ev, layer, norm, rt, duo>>

\* 7. port1.onmessage: the handler of the page's end of the channel
Port1OnMessage ==
  /\ port1Inbox # <<>>
  /\ ~port1Closed
  /\ LET data == Head(port1Inbox) IN
     /\ port1Inbox' = Tail(port1Inbox)
     /\ IF data.type = "FILE_MAP_SET"
          THEN /\ iframeSrc' = Str(StrCat(SCOPE_PREFIX, <<"index.html">>))
               /\ SetStatus("success")
               /\ port1Closed' = TRUE
               /\ acks' = [acks EXCEPT !.handled = @ + 1]
          ELSE UNCHANGED <<iframeSrc, status, hist, port1Closed, acks>>
  /\ UNCHANGED <<pc, errorMessage, caps, creds, pkg, tar, pageMap, calls,
                 swFileMap, swInbox, ev, thrown, env, layer, norm, rt, duo>>

(***************************************************************************)
(* The layer: the listeners of public/sw.js.                               *)
(***************************************************************************)
\* SwOnMessage with a plausible fault: the receipt is confirmed at once and
\* the table is left to be stored later
SwOnMessageAckFirst ==
  /\ layer = "public/sw.js"
  /\ swInbox # <<>>
  /\ LET data == Head(swInbox) IN
     /\ swInbox' = Tail(swInbox)
     /\ IF data.type = "SET_FILE_MAP" /\ data.port
          THEN /\ port1Inbox' = Append(port1Inbox, Ack)
               /\ acks' = [acks EXCEPT !.sent = @ + 1]
          ELSE UNCHANGED <<port1Inbox, acks>>
     /\ UNCHANGED swFileMap
  /\ UNCHANGED <<pageVars, port1Closed, ev, layer, norm, rt, duo>>

\* the message listener
SwOnMessage ==
  /\ layer = "public/sw.js"
  /\ swInbox # <<>>
  /\ LET data == Head(swInbox) IN
     /\ swInbox' = Tail(swInbox)
     /\ IF data.type = "SET_FILE_MAP"
          THEN /\ swFileMap' = data.fileMap
               /\ IF data.port
                    THEN /\ port1Inbox' = Append(port1Inbox, Ack)
                         /\ acks' = [acks EXCEPT !.sent = @ + 1]
                    ELSE UNCHANGED <<port1Inbox, acks>>
          ELSE UNCHANGED <<swFileMap, port1Inbox, acks>>
  /\ UNCHANGED <<pageVars, port1Closed, ev, layer, norm, rt, duo>>

\* the fetch listener, on a request for any path. The listener changes
\* nothing of the layer, so one fetch event per behaviour is recorded (at
\* any moment, for any path) and every other one is a stuttering step.
SwOnFetch ==
  /\ IsNull(ev)
  /\ \E path \in Paths :
       ev' = [path |-> path, fileMap |-> swFileMap, response |-> SwFetch(swFileMap, path)]
  /\ UNCHANGED <<pageVars, swFileMap, swInbox, port1Inbox, port1Closed, acks, layer, norm, rt, duo>>

\* the platform stops the idle layer; the next event starts the script
\* again, with its globals as the script sets them
SwRestart ==
  /\ ~IsNull(swFileMap)
  /\ swFileMap' = NULL
  /\ UNCHANGED <<pageVars, swInbox, port1Inbox, port1Closed, acks, ev, layer, norm, rt, duo>>

\* the earlier script has no message listener (its table comes over a
\* BroadcastChannel that the page never posts to): the message event is
\* dispatched to nothing, and the port it carries is never answered
StaleOnMessage ==
  /\ layer = "unnamed/part_003"
  /\ swInbox # <<>>
  /\ swInbox' = Tail(swInbox)
  /\ UNCHANGED <<pageVars, swFileMap, port1Inbox, port1Closed, acks, ev, layer, norm, rt, duo>>

Next ==
  \/ Start
  \/ RegisterSettled
  \/ ReadCredentials
  \/ FetchSettled
  \/ DecryptSettled
  \/ UntarSettled
  \/ Port1OnMessage
  \/ SwOnMessage
  \/ SwOnFetch
  \/ SwRestart

Spec == Init /\ [][Next]_vars

\* the page and the layer as they start
Booted ==
  /\ pc = "start" /\ status = "checking" /\ errorMessage = "" /\ iframeSrc = NULL
  /\ hist = <<"checking">> /\ caps = NULL /\ creds = NULL /\ pkg = NULL
  /\ tar = NULL /\ pageMap = NULL
  /\ calls = [register |-> 0, fetch |-> 0, deriveKey |-> 0, decrypt |-> 0,
              untar |-> 0, postMessage |-> 0]
  /\ swFileMap = NULL /\ swInbox = <<>> /\ port1Inbox = <<>> /\ port1Closed = FALSE
  /\ acks = [sent |-> 0, handled |-> 0]
  /\ ev = NULL /\ thrown = NULL
  /\ env = [response |-> NULL, controller |-> NULL]

\* The handoff under fair scheduling: the layer in control is either script,
\* every promise the page awaits settles, and every posted message is
\* dispatched. Fetch events change nothing and are left out.
InitAnyLayer ==
  /\ Booted
  /\ \E l \in LayerScripts : layer = l
  /\ norm = NULL
  /\ rt = NULL
  /\ duo = NULL

NextFair ==
  \/ Start
  \/ RegisterSettled
  \/ ReadCredentials
  \/ FetchSettled
  \/ DecryptSettled
  \/ UntarSettled
  \/ Port1OnMessage
  \/ SwOnMessage
  \/ StaleOnMessage
  \/ SwRestart

FairSpec ==
  /\ InitAnyLayer
  /\ [][NextFair]_vars
  /\ WF_vars(Start) /\ WF_vars(RegisterSettled) /\ WF_vars(ReadCredentials)
  /\ WF_vars(FetchSettled) /\ WF_vars(DecryptSettled) /\ WF_vars(UntarSettled)
  /\ WF_vars(Port1OnMessage) /\ WF_vars(SwOnMessage) /\ WF_vars(StaleOnMessage)

(***************************************************************************)
(* The path normalization on its own: a path is drawn, and the page's       *)
(* normalization is applied to it, and then to the result.                  *)
(***************************************************************************)
NormSegs == {".", "", "x", "index.html"}
NormPaths == SeqsUpTo(NormSegs, MaxSegs) \ {<<>>}

NormInit ==
  /\ Booted
  /\ layer = "public/sw.js"
  /\ \E p \in NormPaths : norm = [p |-> p, n |-> 0, once |-> p, twice |-> p]
  /\ rt = NULL
  /\ duo = NULL

\* const normalizedPath = file.name.replace(/^\.\//, ''), on the path and
\* then on what it gave
Normalize ==
  /\ ~IsNull(norm)
  /\ norm.n < 2
  /\ norm' = IF norm.n = 0
               THEN [norm EXCEPT !.n = 1, !.once = normalizedPath(norm.p)]
               ELSE [norm EXCEPT !.n = 2, !.twice = normalizedPath(norm.once)]
  /\ UNCHANGED <<pageVars, swFileMap, swInbox, port1Inbox, port1Closed, acks, ev, layer, rt, duo>>

NormNext == Normalize

NormSpec == NormInit /\ [][NormNext]_vars

(***************************************************************************)
(* The packer and the page's decryption on their own: a password, a salt,  *)
(* an IV and an archive buffer are drawn; the packer writes the package,    *)
(* the page decodes its four fields and decrypts it with the same password. *)
(***************************************************************************)
RoundInit ==
  /\ Booted
  /\ layer = "public/sw.js"
  /\ norm = NULL
  /\ duo = NULL
  /\ \E p \in 1..Len(Passwords), s \in 1..Len(SaltList), v \in 1..Len(IvList),
        n \in 0..NumArchives :
       rt = [password |-> Passwords[p], salt |-> SaltList[s], iv |-> IvList[v],
             archive |-> <<n>>, step |-> "drawn",
             wire |-> NULL, fields |-> NULL, decrypted |-> NULL]

\* encryptDirectory: the package as written to <name>.enc
Pack ==
  /\ ~IsNull(rt)
  /\ rt.step = "drawn"
  /\ rt' = [rt EXCEPT !.step = "packed",
                      !.wire = Str(encryptDirectory(rt.password, rt.salt, rt.iv, rt.archive))]
  /\ UNCHANGED <<pageVars, swFileMap, swInbox, port1Inbox, port1Closed, acks, ev, layer, norm, duo>>

\* decryptPackage, its first part: the split and the four hex decodings
Decode ==
  /\ ~IsNull(rt)
  /\ rt.step = "packed"
  /\ rt' = [rt EXCEPT !.step = "decoded", !.fields = DecodeFields(rt.wire.str)]
  /\ UNCHANGED <<pageVars, swFileMap, swInbox, port1Inbox, port1Closed, acks, ev, layer, norm, duo>>

\* decryptPackage as a whole, with the password the package was written for
Decrypt ==
  /\ ~IsNull(rt)
  /\ rt.step = "decoded"
  /\ rt' = [rt EXCEPT !.step = "decrypted", !.decrypted = decryptPackage(rt.password, rt.wire.str)]
  /\ UNCHANGED <<pageVars, swFileMap, swInbox, port1Inbox, port1Closed, acks, ev, layer, norm, duo>>

RoundNext == Pack \/ Decode \/ Decrypt

RoundSpec == RoundInit /\ [][RoundNext]_vars

(***************************************************************************)
(* Two pages and the one layer. Each page has built its table and is at    *)
(* the handoff; the layer is the one script, with its one global table.    *)
(***************************************************************************)
Pages == {1, 2}

\* the table each page has built: of a directory with a subdirectory, and
\* of a plain two-file archive
DuoTable(p) == JsMap(BuildFileMap(Archives[p + 1], EmptyMap))

DuoInit ==
  /\ Booted
  /\ layer = "public/sw.js"
  /\ norm = NULL
  /\ rt = NULL
  /\ duo = [pc |-> [p \in Pages |-> "handoff"],
            status |-> [p \in Pages |-> "unpacking"],
            iframeSrc |-> [p \in Pages |-> NULL],
            port1Inbox |-> [p \in Pages |-> <<>>],
            port1Closed |-> [p \in Pages |-> FALSE],
            acksSent |-> [p \in Pages |-> 0],
            handled |-> <<>>,
            others |-> [posted |-> 0, handled |-> 0],
            ev |-> NULL]

\* 9. page p posts its table to the controlling layer, with its own port2
DuoPost(p) ==
  /\ duo.pc[p] = "handoff"
  /\ swInbox' = Append(swInbox, [type |-> "SET_FILE_MAP", fileMap |-> DuoTable(p), port |-> p])
  /\ duo' = [duo EXCEPT !.pc[p] = "returned"]
  /\ UNCHANGED <<pageVars, swFileMap, port1Inbox, port1Closed, acks, ev, layer, norm, rt>>

\* a client posts a message that is not the handoff: another tag, or data
\* without a tag; it carries a table and a port all the same
OtherTags == {"PING", "undefined"}
DuoPostOther(p) ==
  /\ duo.others.posted < MaxOther
  /\ \E tag \in OtherTags :
       swInbox' = Append(swInbox, [type |-> tag, fileMap |-> DuoTable(p), port |-> p])
  /\ duo' = [duo EXCEPT !.others.posted = @ + 1]
  /\ UNCHANGED <<pageVars, swFileMap, port1Inbox, port1Closed, acks, ev, layer, norm, rt>>

\* DuoOnMessage with a plausible fault: the tag is not tested
DuoOnMessageAnyTag ==
  /\ swInbox # <<>>
  /\ LET data == Head(swInbox) IN
     /\ swInbox' = Tail(swInbox)
     /\ swFileMap' = data.fileMap
     /\ duo' = [duo EXCEPT !.port1Inbox[data.port] = Append(@, Ack),
                            !.acksSent[data.port] = @ + 1,
                            !.handled = Append(@, data.port)]
  /\ UNCHANGED <<pageVars, port1Inbox, port1Closed, acks, ev, layer, norm, rt>>

\* the layer's message listener, on the next message of either page
DuoOnMessage ==
  /\ swInbox # <<>>
  /\ LET data == Head(swInbox) IN
     /\ swInbox' = Tail(swInbox)
     /\ IF data.type = "SET_FILE_MAP"
          THEN /\ swFileMap' = data.fileMap
               /\ duo' = [duo EXCEPT !.port1Inbox[data.port] = Append(@, Ack),
                                      !.acksSent[data.port] = @ + 1,
                                      !.handled = Append(@, data.port)]
          ELSE /\ duo' = [duo EXCEPT !.others.handled = @ + 1]
               /\ UNCHANGED swFileMap
  /\ UNCHANGED <<pageVars, port1Inbox, port1Closed, acks, ev, layer, norm, rt>>

\* 7. port1.onmessage of page p
DuoPort1OnMessage(p) ==
  /\ duo.port1Inbox[p] # <<>>
  /\ ~duo.port1Closed[p]
  /\ LET data == Head(duo.port1Inbox[p]) IN
     duo' = IF data.type = "FILE_MAP_SET"
              THEN [duo EXCEPT !.port1Inbox[p] = Tail(@),
                               !.iframeSrc[p] = Str(StrCat(SCOPE_PREFIX, <<"index.html">>)),
                               !.status[p] = "success",
                               !.port1Closed[p] = TRUE]
              ELSE [duo EXCEPT !.port1Inbox[p] = Tail(@)]
  /\ UNCHANGED <<pageVars, swFileMap, swInbox, port1Inbox, port1Closed, acks, ev, layer, norm, rt>>

\* the fetch listener, on a request from the viewport of a page that has
\* set its viewport source; one fetch event per behaviour is recorded
DuoOnFetch(p) ==
  /\ IsNull(duo.ev)
  /\ ~IsNull(duo.iframeSrc[p])
  /\ \E path \in Paths :
       duo' = [duo EXCEPT !.ev = [page |-> p, path |-> path, handled |-> duo.handled,
                                  fileMap |-> swFileMap,
                                  response |-> SwFetch(swFileMap, path)]]
  /\ UNCHANGED <<pageVars, swFileMap, swInbox, port1Inbox, port1Closed, acks, ev, layer, norm, rt>>

DuoNext ==
  \/ \E p \in Pages : DuoPost(p)
  \/ \E p \in Pages : DuoPostOther(p)
  \/ DuoOnMessage
  \/ \E p \in Pages : DuoPort1OnMessage(p)
  \/ \E p \in Pages : DuoOnFetch(p)
  \/ SwRestart

DuoSpec == DuoInit /\ [][DuoNext]_vars

(***************************************************************************)
(* Properties.                                                             *)
(***************************************************************************)
\* the part of a path after the page's scope prefix
AfterPrefix(path) == SubSeq(path, Len(SCOPE_PREFIX), Len(path))

\* the recorded fetch event was for a path under the page's scope prefix
InScopeEvent == ~IsNull(ev) /\ startsWithPrefix(ev.path)

\* the answer with the entry a table stores under a key
Stored(fileMap, key) ==
  Response(200, fileMap.map[key].bytes, fileMap.map[key].type)

\* C1: the viewport source is set, and the state is success, only after the
\* page has handled the FILE_MAP_SET acknowledgment that the layer sent in
\* reply to the page's SET_FILE_MAP message.
C1_AckBeforeViewport ==
  (~IsNull(iframeSrc) \/ status = "success") =>
    /\ acks.handled >= 1
    /\ acks.handled <= acks.sent
    /\ acks.sent <= calls.postMessage
    /\ acks.sent + Len(swInbox) = calls.postMessage

C1_Witness ==
  /\ status = "success"
  /\ iframeSrc = Str(StrCat(SCOPE_PREFIX, <<"index.html">>))
  /\ acks.handled = 1

\* C2: while the layer holds no table (at start, and after a restart), a
\* request for a path in the virtual scope is answered by the layer with the
\* status-500 response, never with 404 and never left to the network.
C2_UninitializedIs500 ==
  (InScopeEvent /\ IsNull(ev.fileMap)) =>
    /\ ev.response.intercepted
    /\ ev.response = Uninitialized
    /\ ev.response.status = 500

\* a request in scope, answered after the layer lost a table it had been sent
C2_Witness ==
  /\ InScopeEvent
  /\ IsNull(ev.fileMap)
  /\ acks.sent = 1
  /\ ev.response.status = 500

\* the reserved prefix is no leading part of the path: neither the page's
\* SCOPE_PREFIX nor the layer's '/portal-scope/'
OutsideReservedPrefix(path) ==
  /\ ~startsWithPrefix(path)
  /\ ~(Len(path) >= 3 /\ path[1] = "" /\ path[2] = VIRTUAL_SCOPE)

\* C3: a request whose path does not begin with the reserved scope prefix is
\* never intercepted (respondWith is not called), whether the table is absent
\* or present.
C3_OutOfScopePassthrough ==
  (~IsNull(ev) /\ OutsideReservedPrefix(ev.path)) => ~ev.response.intercepted

\* C4: with the table received, an in-scope request for <prefix>k is answered
\* with the entry stored under k, whatever number of segments k has, and with
\* 404 when the remaining path is not a key. (A remaining path that is empty
\* or ends in '/' is the case of C5; the paths here have no empty segment.)
C4_LookupByRemainingPath ==
  (InScopeEvent /\ ~IsNull(ev.fileMap)
   /\ \A i \in Len(SCOPE_PREFIX)..Len(ev.path) : ev.path[i] # "") =>
    LET k == AfterPrefix(ev.path) IN
    IF k \in DOMAIN ev.fileMap.map
      THEN ev.response = Stored(ev.fileMap, k)
      ELSE ev.response = NotFound

\* C5: with the table received, an in-scope request whose remaining path is
\* empty or ends in '/' is answered with the entry stored under 'index.html'
\* (404 when the table has none); for the table of a two-file archive
\* (index.html, style.css) the scope root is answered with index.html's bytes
\* and content type text/html.
C5_DirectoryIsIndex ==
  (InScopeEvent /\ ~IsNull(ev.fileMap) /\ ev.path[Len(ev.path)] = "") =>
    /\ IF <<"index.html">> \in DOMAIN ev.fileMap.map
         THEN ev.response = Stored(ev.fileMap, <<"index.html">>)
         ELSE ev.response = NotFound
    /\ (ev.path = SCOPE_PREFIX /\ DOMAIN ev.fileMap.map = {<<"index.html">>, <<"style.css">>}) =>
         /\ ev.response.status = 200
         /\ ev.response.type = "text/html"
         /\ ev.response.body = Rewritten(File(<<"index.html">>, IndexHtml))

C5_Witness ==
  /\ InScopeEvent
  /\ ~IsNull(ev.fileMap)
  /\ ev.path = SCOPE_PREFIX
  /\ DOMAIN ev.fileMap.map = {<<"index.html">>, <<"style.css">>}
  /\ ev.response.type = "text/html"

\* the password presented is not the one the package was encrypted with, or
\* the ciphertext or the auth tag was altered
BadPasswordOrTampered ==
  /\ ~IsNull(pkg)
  /\ creds.password # pkg.pw \/ pkg.damage \in Tampered

\* C6: with a wrong password, or an altered ciphertext or auth tag, no
\* plaintext is returned or parsed: untar is never called, the File Table is
\* never built, no SET_FILE_MAP is sent, the viewport source is never set, and
\* once decryptPackage has settled the pipeline is over, in error.
C6_AuthenticationGate ==
  BadPasswordOrTampered =>
    /\ calls.untar = 0
    /\ IsNull(tar)
    /\ IsNull(pageMap)
    /\ calls.postMessage = 0
    /\ swInbox = <<>>
    /\ IsNull(iframeSrc)
    /\ pc \in {"decrypt", "returned"}
    /\ pc = "returned" => status = "error"

C6_Witness ==
  /\ BadPasswordOrTampered
  /\ creds.password = pkg.pw
  /\ pkg.damage = "tag"
  /\ calls.decrypt = 1
  /\ status = "error"

\* decryptPackage has settled with a failure
DecryptionFailed ==
  /\ ~IsNull(pkg)
  /\ pc = "returned"
  /\ calls.untar = 0

\* C7: whatever made the decryption layer fail (an envelope that does not
\* decode, a wrong password, altered data), the run ends in the same
\* user-visible outcome: state error with one and the same message.
C7_UndifferentiatedFailure ==
  DecryptionFailed => (status = "error" /\ errorMessage = MsgGeneric)

\* a run that failed on an envelope that does not decode, with the right
\* password
C7_Witness ==
  /\ DecryptionFailed
  /\ creds.password = pkg.pw
  /\ pkg.damage = "short"
  /\ calls.deriveKey = 0
  /\ status = "error"

\* C8: unsupported, insecure, error and success are terminal: once the
\* state is one of them it does not change again.
C8_TerminalStates == [][(status \in Terminal) => (status' = status)]_vars

\* the run ended in error at the handoff, with port1's handler installed
C8_Witness ==
  /\ status = "error"
  /\ ~IsNull(pageMap)
  /\ calls.postMessage = 0
  /\ ~IsNull(ev)

Stage(s) ==
  CASE s = "checking" -> 0
    [] s = "registering_sw" -> 1
    [] s = "loading" -> 2
    [] s = "decrypting" -> 3
    [] s = "unpacking" -> 4
    [] s = "handoff" -> 5
    [] s \in Terminal -> 6

ForwardOnly ==
  /\ status = hist[Len(hist)]
  /\ \A i \in 1..(Len(hist) - 1) :
       /\ Stage(hist[i]) < Stage(hist[i + 1])
       /\ hist[i + 1] \in {"unsupported", "insecure"} => hist[i] = "checking"
       /\ hist[i + 1] = "error" => hist[i] # "checking"

\* C9 as claimed: the state only moves forward, unsupported and insecure
\* are entered from checking only, error from a later stage only, and a run
\* that reaches success has passed through registering-interceptor, loading,
\* decrypting, unpacking and handoff, in that order.
C9_AsClaimed ==
  /\ ForwardOnly
  /\ status = "success" =>
       hist = <<"checking", "registering_sw", "loading", "decrypting", "unpacking",
                "handoff", "success">>

\* C9 as amended: as claimed, but there is no handoff state: the handoff
\* takes place while the state is unpacking, and success follows unpacking.
C9_ForwardWithoutHandoffState ==
  /\ ForwardOnly
  /\ \A i \in 1..Len(hist) : hist[i] # "handoff"
  /\ status = "success" =>
       hist = <<"checking", "registering_sw", "loading", "decrypting", "unpacking", "success">>

C9_Witness ==
  /\ status = "success"
  /\ Len(hist) = 6

NoNetworkCall ==
  /\ calls.register = 0
  /\ calls.fetch = 0
  /\ calls.postMessage = 0
  /\ swInbox = <<>>
  /\ IsNull(pkg)
  /\ pc = "returned"

\* C10 as claimed: with the encryption primitive or the interception
\* capability missing the state becomes unsupported, with an insecure
\* transport it becomes insecure, and in such a run there is no interceptor
\* registration, no envelope fetch and no handoff message.
C10_AsClaimed ==
  ~IsNull(caps) =>
    /\ (~caps.subtle \/ ~caps.serviceWorker) => (status = "unsupported" /\ NoNetworkCall)
    /\ ~caps.isSecureContext => (status = "insecure" /\ NoNetworkCall)

\* C10 as amended: the capabilities are checked first, so an insecure
\* transport gives insecure only when both capabilities are present.
C10_ChecksBeforeNetwork ==
  ~IsNull(caps) =>
    /\ (~caps.subtle \/ ~caps.serviceWorker) => (status = "unsupported" /\ NoNetworkCall)
    /\ (caps.subtle /\ caps.serviceWorker /\ ~caps.isSecureContext) =>
         (status = "insecure" /\ NoNetworkCall)

\* the layer has answered a request after the page refused to run
C10_Witness ==
  /\ ~IsNull(caps)
  /\ ~caps.isSecureContext
  /\ status = "insecure"
  /\ ~IsNull(ev)

\* C11: when the project id or the password is absent from the query
\* parameters, the pipeline ends in error with the missing-credentials
\* message, and in that run the package is never fetched, decryption is never
\* attempted and no handoff message is sent.
C11_MissingCredentials ==
  (~IsNull(creds) /\ (creds.projectId = "" \/ creds.password = "")) =>
    /\ status = "error"
    /\ errorMessage = MsgMissing
    /\ pc = "returned"
    /\ calls.fetch = 0
    /\ IsNull(env.response) /\ IsNull(pkg)
    /\ calls.deriveKey = 0 /\ calls.decrypt = 0
    /\ calls.postMessage = 0 /\ swInbox = <<>> /\ acks.sent = 0
    /\ IsNull(iframeSrc)

\* the password alone is absent, and the layer has since answered a request
C11_Witness ==
  /\ ~IsNull(creds)
  /\ creds.projectId = "demo"
  /\ creds.password = ""
  /\ status = "error"
  /\ ~IsNull(ev)

\* C12: a 404 answer to the package fetch and any other answer that is not
\* 2xx both end the pipeline in error without attempting decryption, and the
\* two failures are told apart from each other (the error of another status
\* is not the one of 404) and from the failures of decryption (what the page
\* shows is not what it shows when decryption fails).
C12_FetchFailureKinds ==
  (~IsNull(env.response) /\ ~env.response.ok) =>
    /\ status = "error"
    /\ pc = "returned"
    /\ calls.deriveKey = 0 /\ calls.decrypt = 0
    /\ (env.response.status # 404) => (thrown # Throw(NotOkError(404)))
    /\ errorMessage # MsgGeneric

\* C13: when the page has built the table and finds no layer controlling
\* it, the pipeline ends in error: no SET_FILE_MAP message is sent, the
\* viewport source is never set and the state never becomes success.
C13_NotControlling ==
  (~IsNull(env.controller) /\ ~env.controller.present) =>
    /\ status = "error"
    /\ pc = "returned"
    /\ errorMessage # ""
    /\ calls.postMessage = 0 /\ swInbox = <<>> /\ acks.sent = 0
    /\ IsNull(swFileMap)
    /\ IsNull(iframeSrc)
    /\ \A i \in 1..Len(hist) : hist[i] # "success"

\* the table was built from a good package, and no layer controls the page
C13_Witness ==
  /\ ~IsNull(env.controller)
  /\ ~env.controller.present
  /\ ~IsNull(pageMap)
  /\ thrown = Throw("Service worker is not active or not controlling the page.")
  /\ status = "error"

\* C14: every run of the pipeline ends in a terminal state: a run that can
\* take no further step (nothing awaited is pending, no message is waiting to
\* be dispatched) is in unsupported, insecure, error or success, also when
\* the layer in control never acknowledges the handoff message.
C14_EndsTerminal ==
  (/\ pc = "returned"
   /\ swInbox = <<>>
   /\ (port1Inbox = <<>> \/ port1Closed)) => (status \in Terminal)

\* C15: a fault during registration, fetch, decryption or unpacking moves
\* the pipeline to error with a non-empty message, and no later stage is
\* executed: nothing after the stage that failed is called, no handoff
\* message is sent and the viewport source is never set.
C15_ErrorSink ==
  ~IsNull(thrown) =>
    /\ status = "error"
    /\ pc = "returned"
    /\ errorMessage # ""
    /\ calls.postMessage = 0 /\ swInbox = <<>> /\ port1Inbox = <<>>
    /\ IsNull(iframeSrc)
    /\ LET failed == hist[Len(hist) - 1] IN
       /\ failed \in {"registering_sw", "loading", "decrypting", "unpacking"}
       /\ (failed = "registering_sw") => (calls.fetch = 0 /\ IsNull(creds))
       /\ (failed \in {"registering_sw", "loading"}) =>
            (calls.deriveKey = 0 /\ calls.decrypt = 0 /\ IsNull(pkg))
       /\ (failed \in {"registering_sw", "loading", "decrypting"}) =>
            (calls.untar = 0 /\ IsNull(tar) /\ IsNull(pageMap))

\* the archive could not be unpacked
C15_Witness ==
  /\ thrown = Throw("CorruptArchive")
  /\ hist[Len(hist) - 1] = "unpacking"
  /\ status = "error"
  /\ errorMessage = MsgGeneric

\* C16: nothing is tried again within one page load: registration, the
\* fetch, key derivation, decryption, unpacking and the SET_FILE_MAP message
\* each happen at most once, no state of the pipeline is entered twice, and
\* once the state is error no further call is made and the state stays.
C16_NoRetry ==
  [][/\ \A what \in DOMAIN calls : calls'[what] <= 1
     /\ acks'.sent + Len(swInbox') <= 1
     /\ \A i, j \in 1..Len(hist') : (hist'[i] = hist'[j]) => (i = j)
     /\ (status = "error") =>
          (calls' = calls /\ status' = "error" /\ pc' = pc /\ swInbox' = swInbox)]_vars

\* a run that went through every stage, each call made once
C16_Witness ==
  /\ status = "success"
  /\ \A what \in DOMAIN calls : calls[what] = 1
  /\ acks.sent = 1
  /\ swInbox = <<>>

\* the entries of the archive that was unpacked
Entries == untar(tar).val

\* C17: the entries of the archive that are directories are skipped: the
\* page's table has no key that comes from a directory entry, and its keys
\* are exactly the normalized paths of the file entries.
C17_DirectoriesSkipped ==
  ~IsNull(pageMap) =>
    /\ \A i \in 1..Len(Entries) :
         IsDirectory(Entries[i]) => (normalizedPath(Entries[i].name) \notin DOMAIN pageMap.map)
    /\ DOMAIN pageMap.map =
         {normalizedPath(Entries[i].name) : i \in {j \in 1..Len(Entries) : ~IsDirectory(Entries[j])}}

\* the last entry of the archive whose normalized path is key
LastEntry(key) ==
  Entries[CHOOSE i \in 1..Len(Entries) :
            /\ normalizedPath(Entries[i].name) = key
            /\ \A j \in (i + 1)..Len(Entries) : normalizedPath(Entries[j].name) # key]

\* C18: the table is the fold of the entries in archive order: it has one
\* entry for each normalized path, the one made from the last archive entry
\* with that path, and entries with the same path are no error.
C18_LastEntryWins ==
  ~IsNull(pageMap) =>
    /\ DOMAIN pageMap.map = {normalizedPath(Entries[i].name) : i \in 1..Len(Entries)}
    /\ \A key \in DOMAIN pageMap.map :
         pageMap.map[key] = Blob(Rewritten(LastEntry(key)), getMimeType(LastEntry(key).name))
    /\ thrown \in {NULL, Throw("Service worker is not active or not controlling the page.")}

\* an archive with './index.html' and then 'index.html' was unpacked and
\* served: the table holds the later entry's content, not the earlier one's
C18_Witness ==
  /\ ~IsNull(pageMap)
  /\ \E i, j \in 1..Len(Entries) :
       /\ i < j
       /\ normalizedPath(Entries[i].name) = normalizedPath(Entries[j].name)
       /\ pageMap.map[normalizedPath(Entries[j].name)].bytes = Rewritten(Entries[j])
       /\ Rewritten(Entries[i]) # Rewritten(Entries[j])
  /\ status = "success"

\* C19: the path normalization is idempotent, for every path and also for
\* one that begins with several './' segments: applied to its own result it
\* changes nothing; it gives 'index.html' for the empty path and 'x' for
\* './x'.
C19_NormalizeIdempotent ==
  ~IsNull(norm) =>
    /\ (norm.n = 2) => (norm.twice = norm.once)
    /\ (norm.n >= 1 /\ norm.p = <<"">>) => (norm.once = <<"index.html">>)
    /\ (norm.n >= 1 /\ norm.p = <<".", "x">>) => (norm.once = <<"x">>)

\* C20: a wire string that does not split into exactly four non-empty hex
\* segments (fewer, more, an empty one, a character that is no hex digit),
\* or that has a segment with an odd number of digits, is rejected by the
\* decoding: neither key derivation nor decryption is called for it, and
\* nothing is decoded and unpacked from it.
C20_MalformedRejected ==
  (~IsNull(pkg) /\ pkg.damage \in Malformed /\ pc # "decrypt") =>
    /\ calls.deriveKey = 0
    /\ calls.decrypt = 0
    /\ IsNull(tar)
    /\ status = "error"

\* C21: the packer and the page's decryption are inverse of each other: for
\* every archive buffer and password, the page decodes the package the
\* packer wrote into the same salt, IV, tag and ciphertext, in that order,
\* and decrypting it with the same password returns exactly the archive
\* buffer.
C21_RoundTrip ==
  ~IsNull(rt) =>
    LET key == Pbkdf2(rt.password, rt.salt, KEY_DERIVATION_ITERATIONS, "SHA-256", KEY_BITS)
        c == GcmEncrypt(key, rt.iv, rt.archive)
    IN /\ (rt.step \in {"decoded", "decrypted"}) =>
            (rt.fields = Return([salt |-> rt.salt, iv |-> rt.iv, authTag |-> c.tag,
                                 encryptedArchive |-> c.ct]))
       /\ (rt.step = "decrypted") => (rt.decrypted = Return(rt.archive))

\* the round trip is done for the second password, salt and IV
C21_Witness ==
  /\ ~IsNull(rt)
  /\ rt.step = "decrypted"
  /\ rt.password = Passwords[2]
  /\ rt.salt = SaltList[2]
  /\ rt.iv = IvList[2]
  /\ rt.decrypted = Return(<<NumArchives>>)

\* an href or src attribute whose value is a root-relative path: '/x'
RootRelative(tok) ==
  /\ tok.t = "attr"
  /\ tok.name \in {"href", "src"}
  /\ Len(tok.val) >= 2 /\ tok.val[1] = "" /\ tok.val[2] # ""

NotBaseTag(tok) == tok.t # "base"

C23_StoreBeforeAck ==
  [][(acks'.sent > acks.sent \/ Len(port1Inbox') > Len(port1Inbox)) =>
       /\ swInbox # <<>>
       /\ Head(swInbox).type = "SET_FILE_MAP"
       /\ swInbox' = Tail(swInbox)
       /\ acks'.sent = acks.sent + 1
       /\ ~IsNull(swFileMap')
       /\ swFileMap' = Head(swInbox).fileMap]_vars

\* the acknowledgment is on its way to the page and the layer holds the
\* page's table
C23_Witness ==
  /\ acks.sent = 1
  /\ port1Inbox = <<Ack>>
  /\ ~IsNull(pageMap)
  /\ swFileMap = pageMap

\* C25: once the page is in success, a request of its viewport for a path in
\* the scope is answered from a table, with the stored bytes or with 404, and
\* never with the status-500 response of the layer that holds no table; also
\* when the layer was stopped and started again after it acknowledged.
C25_ServedAfterSuccess ==
  [][(status = "success" /\ IsNull(ev) /\ ~IsNull(ev') /\ startsWithPrefix(ev'.path)) =>
       /\ ev'.response.intercepted
       /\ ev'.response # Uninitialized
       /\ ev'.response.status \in {200, 404}
       /\ ~IsNull(ev'.fileMap)]_vars

\* C24: with two pages handing off to the one layer, each SET_FILE_MAP
\* message replaces the layer's whole table: once both are handled the table
\* is that of the message handled last, each page is sent exactly one
\* acknowledgment, on its own port, and every later request in the scope, of
\* either page's viewport, is answered from the table handled last.
C24_LastWriterWins ==
  ~IsNull(duo) =>
    /\ \A p \in Pages :
         duo.acksSent[p] = IF \E i \in 1..Len(duo.handled) : duo.handled[i] = p THEN 1 ELSE 0
    /\ (Len(duo.handled) = 2) => (swFileMap = DuoTable(duo.handled[2]))
    /\ (~IsNull(duo.ev) /\ Len(duo.ev.handled) = 2 /\ startsWithPrefix(duo.ev.path)) =>
         /\ duo.ev.fileMap = DuoTable(duo.ev.handled[2])
         /\ duo.ev.response = SwFetch(DuoTable(duo.ev.handled[2]), duo.ev.path)

\* C26: the layer's table is absent at start and is changed only by a
\* message tagged SET_FILE_MAP: a step that handles a fetch event leaves it
\* as it is, a step that handles a message with another tag or none leaves
\* it as it is and sends no acknowledgment, and the only other change is the
\* loss of the table when the layer is stopped.
C26_TableFrame ==
  /\ IsNull(swFileMap)
  /\ [][/\ (duo'.ev # duo.ev) => (swFileMap' = swFileMap)
        /\ (swInbox # <<>> /\ swInbox' = Tail(swInbox) /\ Head(swInbox).type # "SET_FILE_MAP") =>
             /\ swFileMap' = swFileMap
             /\ duo'.acksSent = duo.acksSent
             /\ duo'.port1Inbox = duo.port1Inbox
        /\ (swFileMap' # swFileMap) =>
             \/ IsNull(swFileMap')
             \/ /\ swInbox # <<>>
                /\ Head(swInbox).type = "SET_FILE_MAP"
                /\ swInbox' = Tail(swInbox)
                /\ swFileMap' = Head(swInbox).fileMap]_vars

\* a message with another tag and a fetch event were handled, and the table
\* is the one of the only SET_FILE_MAP message handled
C26_Witness ==
  /\ ~IsNull(duo)
  /\ duo.others.handled = 1
  /\ ~IsNull(duo.ev)
  /\ Len(duo.handled) = 1
  /\ swFileMap = DuoTable(duo.handled[1])
  /\ \A p \in Pages : duo.acksSent[p] = IF p = duo.handled[1] THEN 1 ELSE 0

====
